---- MODULE Spec2Model ----
(***************************************************************************)
(* Model of the ChatbotPage view of n8n-automation.  The repository holds  *)
(* two copies of the view, src/app/page.tsx ("root") and                   *)
(* src/app/[personaId]/page.tsx ("persona"); their handlers are the same   *)
(* code, their markup differs in where the End control is rendered: the   *)
(* root copy offers it only while the conversation is not ended, the      *)
(* persona copy always.  The model takes the persona copy's markup, whose  *)
(* behaviours include those of the root copy.                              *)
(*                                                                         *)
(* Conventions.  Text is a sequence of one-character strings.  An optional *)
(* value (null / undefined in the source) is a sequence of length 0 or 1.  *)
(* A handler runs to its next await as one step (the UI thread is single-  *)
(* threaded and a handler sees the state of the latest render).            *)
(* State setters are applied as written also after teardown; what stops   *)
(* after teardown is user input and the persona effect.  User input needs *)
(* the chat UI to be rendered (not the loading or the not-found screen).  *)
(***************************************************************************)
EXTENDS Integers, Sequences, FiniteSets, Bags, TLC

VARIABLES
  phase,              \* "constructed", "mounted" or "unmounted"
  navigations,        \* number of identifier changes so far (bounded)
  personaId,          \* route / query identifier, "" when absent
  persona,            \* useState<Persona | null>(null)
  messages,           \* useState<Message[]>([])
  input,              \* useState('')
  isLoading,          \* useState(false)
  typingText,         \* useState('')
  isTyping,           \* useState(false)
  error,              \* useState<string | null>(null)
  isLoadingPersona,   \* useState(true)
  isChatEnded,        \* useState(false)
  typingIntervalRef,  \* useRef<number | null>(null), 0 for null
  timers,             \* the intervals window.setInterval has installed
  personaReqs,        \* GET /persona/{id} requests in flight (a bag)
  chatReqs,           \* POST /chat requests of handleSubmit in flight
  endNotes,           \* number of POST /chat end notifications sent
  cancelled,          \* history: texts whose reveal was stopped uncommitted
  lastCall            \* the handler or callback that ran last

vars == <<phase, navigations, personaId, persona, messages, input,
          isLoading, typingText, isTyping, error, isLoadingPersona,
          isChatEnded, typingIntervalRef, timers, personaReqs, chatReqs,
          endNotes, cancelled, lastCall>>

----------------------------------------------------------------------------
(* Bounds of the model.                                                    *)

MaxMsgs == 2          \* a submit is taken only while the transcript is shorter
MaxNavigations == 1   \* identifier changes after mount
MaxEndCalls == 2      \* end notifications sent
MaxScenarioMsgs == 4  \* as MaxMsgs, in the undisturbed conversation

----------------------------------------------------------------------------
(* Values the environment supplies.                                        *)

PersonaIds == {"abc", "xyz"}

\* what the user types into the field: blank, and text with a leading blank
UserInputs == {<<" ">>, <<" ", "q">>}

ReplyTexts == {<<>>, <<"h", "i">>}

Greetings == {<<>>, <<"H">>}

ServerErrorBodies == {"", "not found"}

NetworkErrors == {"Failed to fetch"}

\* what issuing the end notification does: the request goes out, or building
\* or issuing it throws an Error, or throws something else
EndNotifyOutcomes == {"sent", "threwError", "threwOther"}

Whitespace == {" "}

----------------------------------------------------------------------------
(* Pure helpers.                                                           *)

Null == <<>>

Some(x) == <<x>>

\* JavaScript truthiness of an optional text: undefined and '' are falsy.
Truthy(opt) == opt # <<>> /\ opt[1] # <<>>

\* a || b || '' on optional texts
OrElse(a, b) == IF Truthy(a) THEN a[1] ELSE IF Truthy(b) THEN b[1] ELSE <<>>

RECURSIVE TrimStart(_)
TrimStart(s) ==
  IF s # <<>> /\ Head(s) \in Whitespace THEN TrimStart(Tail(s)) ELSE s

RECURSIVE TrimEnd(_)
TrimEnd(s) ==
  IF s # <<>> /\ s[Len(s)] \in Whitespace
    THEN TrimEnd(SubSeq(s, 1, Len(s) - 1))
    ELSE s

\* String.prototype.trim
Trim(s) == TrimEnd(TrimStart(s))

\* String.prototype.charAt with a 0-based index: '' when out of range
charAt(text, i) == IF i >= 0 /\ i < Len(text) THEN <<text[i + 1]>> ELSE <<>>

Message(idKind, role, content) ==
  [id |-> idKind, role |-> role, content |-> content]

\* messages.map(msg => ({ role: msg.role, content: msg.content }))
Project(msgs) ==
  [i \in 1..Len(msgs) |-> [role |-> msgs[i].role, content |-> msgs[i].content]]

\* the fixed apology of a failed send, kept as one unit of text
ApologyText == <<"Sorry, I encountered an error. Please try again.">>

\* without element number i
RemoveAt(s, i) == SubSeq(s, 1, i - 1) \o SubSeq(s, i + 1, Len(s))

TimerIds == {t.id : t \in timers}

\* window.setInterval returns a handle no live interval and no kept handle has
FreshTimerId ==
  CHOOSE n \in 1..(Cardinality(timers) + 2) :
    /\ n \notin TimerIds
    /\ n # typingIntervalRef
    /\ \A m \in 1..(n - 1) : m \in TimerIds \/ m = typingIntervalRef

\* window.clearInterval(handle)
clearInterval(set, handle) == {t \in set : t.id # handle}

\* the texts of the intervals of `before` that `after` no longer holds
Stopped(before, after) == {t.text : t \in before \ after}

\* error && ... : null and '' are falsy
ErrorShown == error # Null /\ error[1] # ""

\* (await response.text()) || fallback, or the thrown error's message
FailureText(outcome, fallback) ==
  IF outcome.kind = "notok"
    THEN (IF outcome.body # "" THEN outcome.body ELSE fallback)
    ELSE outcome.msg

PersonaOutcomes ==
  [kind : {"ok"}, greeting : {Null} \cup {Some(g) : g \in Greetings}]
    \cup [kind : {"notok"}, body : ServerErrorBodies]
    \cup [kind : {"neterr"}, msg : NetworkErrors]

ChatOutcomes ==
  [kind : {"ok"},
   response : {Null} \cup {Some(r) : r \in ReplyTexts},
   message : {Null} \cup {Some(r) : r \in ReplyTexts}]
    \cup [kind : {"notok"}, body : ServerErrorBodies]
    \cup [kind : {"neterr"}, msg : NetworkErrors]

----------------------------------------------------------------------------
(* Markup: which controls the current render offers.                       *)

\* the loading screen and the "Chatbot Not Found" screen replace the chat UI
ChatUIRendered == ~isLoadingPersona /\ ~(ErrorShown /\ persona = Null)

\* root copy: the End button sits in the input section, rendered while the
\* conversation is not ended
EndControlRenderedRoot == ChatUIRendered /\ ~isChatEnded

\* persona copy: a second End button sits in the header, always rendered
EndControlRendered == ChatUIRendered

----------------------------------------------------------------------------
Init ==
  /\ phase = "constructed"
  /\ navigations = 0
  /\ personaId \in {"abc", ""}
  /\ persona = Null
  /\ messages = <<>>
  /\ input = <<>>
  /\ isLoading = FALSE
  /\ typingText = <<>>
  /\ isTyping = FALSE
  /\ error = Null
  /\ isLoadingPersona = TRUE
  /\ isChatEnded = FALSE
  /\ typingIntervalRef = 0
  /\ timers = {}
  /\ personaReqs = EmptyBag
  /\ chatReqs = <<>>
  /\ endNotes = 0
  /\ cancelled = {}
  /\ lastCall = "constructor"

----------------------------------------------------------------------------
(* Persona loader.                                                         *)

\* fetchPersona up to its await: flag, error reset, request issued
fetchPersonaStart(id) ==
  /\ isLoadingPersona' = TRUE
  /\ error' = Null
  /\ personaReqs' = personaReqs (+) SetToBag({[id |-> id]})

\* mutant: the effect calls fetchPersona without testing the identifier
PersonaEffect_AlwaysFetch(id) == fetchPersonaStart(id)

\* the effect on [personaId], run with the identifier of the new render
PersonaEffect(id) ==
  IF id # ""
    THEN fetchPersonaStart(id)
    ELSE /\ error' = Some("No persona ID provided")
         /\ isLoadingPersona' = FALSE
         /\ UNCHANGED personaReqs

Mount ==
  /\ phase = "constructed"
  /\ phase' = "mounted"
  /\ PersonaEffect(personaId)
  /\ lastCall' = "mount"
  /\ UNCHANGED <<navigations, personaId, persona, messages, input,
                 isLoading, typingText, isTyping, isChatEnded,
                 typingIntervalRef, timers, chatReqs, endNotes, cancelled>>

\* the route or query identifier changes while the view stays mounted
Navigate(id) ==
  /\ phase = "mounted"
  /\ navigations < MaxNavigations
  /\ id # personaId
  /\ personaId' = id
  /\ navigations' = navigations + 1
  /\ PersonaEffect(id)
  /\ lastCall' = "navigate"
  /\ UNCHANGED <<phase, persona, messages, input, isLoading,
                 typingText, isTyping, isChatEnded, typingIntervalRef,
                 timers, chatReqs, endNotes, cancelled>>

\* mutant: the else branch setMessages([]) is missing
fetchPersonaOk_NoReset(req, outcome) ==
  /\ persona' = Some([id |-> req.id, greeting |-> outcome.greeting])
  /\ messages' =
       IF Truthy(outcome.greeting)
         THEN <<Message("greeting", "assistant", outcome.greeting[1])>>
         ELSE messages
  /\ UNCHANGED error

\* fetchPersona after a successful response: setPersona, seed the transcript
fetchPersonaOk(req, outcome) ==
  /\ persona' = Some([id |-> req.id, greeting |-> outcome.greeting])
  /\ messages' =
       IF Truthy(outcome.greeting)
         THEN <<Message("greeting", "assistant", outcome.greeting[1])>>
         ELSE <<>>
  /\ UNCHANGED error

\* fetchPersona's catch block
fetchPersonaCatch(req, outcome) ==
  /\ error' = Some(FailureText(outcome, "Persona not found"))
  /\ messages' = <<>>
  /\ UNCHANGED persona

\* a persona request completes; the finally block clears the flag
PersonaResponse(req, outcome) ==
  /\ BagIn(req, personaReqs)
  /\ personaReqs' = personaReqs (-) SetToBag({req})
  /\ IF outcome.kind = "ok"
       THEN fetchPersonaOk(req, outcome)
       ELSE fetchPersonaCatch(req, outcome)
  /\ isLoadingPersona' = FALSE
  /\ lastCall' = IF outcome.kind = "ok" THEN "personaLoaded" ELSE "personaFailed"
  /\ UNCHANGED <<phase, navigations, personaId, input, isLoading,
                 typingText, isTyping, isChatEnded, typingIntervalRef,
                 timers, chatReqs, endNotes, cancelled>>

----------------------------------------------------------------------------
(* Reveal timer.                                                           *)

\* mutant: the empty-text branch returns without setIsLoading(false)
typeMessage_EmptyKeepsLoading(text) ==
  IF text = <<>>
    THEN /\ isTyping' = FALSE
         /\ typingText' = <<>>
         /\ UNCHANGED <<isLoading, timers, typingIntervalRef>>
    ELSE /\ isTyping' = TRUE
         /\ typingText' = <<>>
         /\ timers' =
              (IF typingIntervalRef # 0
                 THEN clearInterval(timers, typingIntervalRef)
                 ELSE timers)
                \cup {[id |-> FreshTimerId, text |-> text, index |-> 0]}
         /\ typingIntervalRef' = FreshTimerId
         /\ UNCHANGED isLoading

\* typeMessage(text)
typeMessage(text) ==
  IF text = <<>>
    THEN /\ isTyping' = FALSE
         /\ typingText' = <<>>
         /\ isLoading' = FALSE
         /\ UNCHANGED <<timers, typingIntervalRef>>
    ELSE /\ isTyping' = TRUE
         /\ typingText' = <<>>
         /\ timers' =
              (IF typingIntervalRef # 0
                 THEN clearInterval(timers, typingIntervalRef)
                 ELSE timers)
                \cup {[id |-> FreshTimerId, text |-> text, index |-> 0]}
         /\ typingIntervalRef' = FreshTimerId
         /\ UNCHANGED isLoading

\* the interval callback while index < text.length.  The updater
\* prev => prev + text.charAt(index) runs either at once (lag 0) or at the
\* next render, after index++ (lag 1).
TickReveal(t, lag) ==
  /\ typingText' = typingText \o charAt(t.text, t.index + lag)
  /\ timers' = (timers \ {t}) \cup {[t EXCEPT !.index = t.index + 1]}
  /\ UNCHANGED <<typingIntervalRef, isTyping, messages, isLoading>>

\* mutant: commits what has been typed instead of the reply text
TickCommit_Typed(t) ==
  /\ timers' = clearInterval(timers, t.id)
  /\ typingIntervalRef' = 0
  /\ isTyping' = FALSE
  /\ messages' = Append(messages, Message("ts", "assistant", typingText))
  /\ typingText' = <<>>
  /\ isLoading' = FALSE

\* mutant: drops the handle without clearing the interval
TickCommit_NoClear(t) ==
  /\ timers' = timers
  /\ typingIntervalRef' = 0
  /\ isTyping' = FALSE
  /\ messages' = Append(messages, Message("ts", "assistant", t.text))
  /\ typingText' = <<>>
  /\ isLoading' = FALSE

\* mutant: the committed reply is put in front of the transcript
TickCommit_Prepend(t) ==
  /\ timers' = clearInterval(timers, t.id)
  /\ typingIntervalRef' = 0
  /\ isTyping' = FALSE
  /\ messages' = <<Message("ts", "assistant", t.text)>> \o messages
  /\ typingText' = <<>>
  /\ isLoading' = FALSE

\* the interval callback once index has reached text.length
TickCommit(t) ==
  /\ timers' = clearInterval(timers, t.id)
  /\ typingIntervalRef' = 0
  /\ isTyping' = FALSE
  /\ messages' = Append(messages, Message("ts", "assistant", t.text))
  /\ typingText' = <<>>
  /\ isLoading' = FALSE

Tick(t, lag) ==
  /\ t \in timers
  /\ IF t.index < Len(t.text)
       THEN TickReveal(t, lag)
       ELSE lag = 0 /\ TickCommit(t)
  /\ lastCall' = IF t.index < Len(t.text) THEN "tick" ELSE "tickCommit"
  /\ UNCHANGED <<phase, navigations, personaId, persona, input, error,
                 isLoadingPersona, isChatEnded, personaReqs, chatReqs,
                 endNotes, cancelled>>

----------------------------------------------------------------------------
(* Conversation.                                                           *)

\* onChange of the input field.  The field exists once the chat UI is
\* rendered; that the markup disables it while a reply is pending and hides
\* it after the end is not relied on, as handleSubmit does not rely on it.
SetInput(v) ==
  /\ phase = "mounted"
  /\ ChatUIRendered
  /\ v # input
  /\ input' = v
  /\ lastCall' = "setInput"
  /\ UNCHANGED <<phase, navigations, personaId, persona, messages,
                 isLoading, typingText, isTyping, error, isLoadingPersona,
                 isChatEnded, typingIntervalRef, timers, personaReqs,
                 chatReqs, endNotes, cancelled>>

\* mutant: the guard does not look at the pending flag
SubmitRejected_NoPendingCheck ==
  Trim(input) = <<>> \/ personaId = "" \/ isChatEnded

\* mutant: the guard tests the raw input
SubmitRejected_NoTrim ==
  input = <<>> \/ isLoading \/ personaId = "" \/ isChatEnded

\* the guard of handleSubmit
SubmitRejected ==
  Trim(input) = <<>> \/ isLoading \/ personaId = "" \/ isChatEnded

\* mutant: the history is taken from the state before the append
historyToSend_Stale(userMessage) == Project(messages)

\* [...messages, userMessage].map(...)
historyToSend(userMessage) == Project(Append(messages, userMessage))

\* mutant: setIsLoading(true) is missing
handleSubmitSend_NoPending ==
  LET userMessage == Message("ts", "user", input) IN
  /\ messages' = Append(messages, userMessage)
  /\ input' = <<>>
  /\ UNCHANGED isLoading
  /\ error' = Null
  /\ chatReqs' = Append(chatReqs,
                        [personaId |-> personaId,
                         message |-> userMessage.content,
                         conversationHistory |-> historyToSend(userMessage)])

\* handleSubmit up to its await
handleSubmitSend ==
  LET userMessage == Message("ts", "user", input) IN
  /\ messages' = Append(messages, userMessage)
  /\ input' = <<>>
  /\ isLoading' = TRUE
  /\ error' = Null
  /\ chatReqs' = Append(chatReqs,
                        [personaId |-> personaId,
                         message |-> userMessage.content,
                         conversationHistory |-> historyToSend(userMessage)])

\* handleSubmit, from the Send button or the Enter key; a submit is accepted
\* only while the transcript is shorter than maxMsgs, which keeps it finite
HandleSubmitWithin(maxMsgs) ==
  /\ phase = "mounted"
  /\ ChatUIRendered
  /\ IF SubmitRejected
       THEN UNCHANGED <<messages, input, isLoading, error, chatReqs>>
       ELSE Len(messages) < maxMsgs /\ handleSubmitSend
  /\ lastCall' = "handleSubmit"
  /\ UNCHANGED <<phase, navigations, personaId, persona, typingText,
                 isTyping, isLoadingPersona, isChatEnded, typingIntervalRef,
                 timers, personaReqs, endNotes, cancelled>>

HandleSubmit == HandleSubmitWithin(MaxMsgs)

\* mutant: the apology replaces the transcript
handleSubmitCatch_Replaces(outcome) ==
  /\ isLoading' = FALSE
  /\ error' = Some(FailureText(outcome, "Failed to get response"))
  /\ messages' = <<Message("err", "assistant", ApologyText)>>
  /\ UNCHANGED <<typingText, isTyping, typingIntervalRef, timers>>

\* mutant: the catch block returns without setIsLoading(false)
handleSubmitCatch_KeepsLoading(outcome) ==
  /\ error' = Some(FailureText(outcome, "Failed to get response"))
  /\ messages' = Append(messages, Message("err", "assistant", ApologyText))
  /\ UNCHANGED <<isLoading, typingText, isTyping, typingIntervalRef, timers>>

\* handleSubmit's catch block
handleSubmitCatch(outcome) ==
  /\ isLoading' = FALSE
  /\ error' = Some(FailureText(outcome, "Failed to get response"))
  /\ messages' = Append(messages, Message("err", "assistant", ApologyText))
  /\ UNCHANGED <<typingText, isTyping, typingIntervalRef, timers>>

\* a chat request completes: handleSubmit after its await
ChatResponse(i, outcome) ==
  /\ i \in 1..Len(chatReqs)
  /\ chatReqs' = RemoveAt(chatReqs, i)
  /\ IF outcome.kind = "ok"
       THEN /\ typeMessage(OrElse(outcome.response, outcome.message))
            /\ UNCHANGED <<messages, error>>
       ELSE handleSubmitCatch(outcome)
  /\ cancelled' = cancelled \cup Stopped(timers, timers')
  /\ lastCall' =
       IF outcome.kind # "ok" THEN "chatFailed"
       ELSE IF OrElse(outcome.response, outcome.message) = <<>>
         THEN "chatReplyEmpty"
         ELSE "chatReply"
  /\ UNCHANGED <<phase, navigations, personaId, persona, input,
                 isLoadingPersona, isChatEnded, personaReqs, endNotes>>

\* mutant: the interval is left running
endChatStopTimer_Forgotten == UNCHANGED <<timers, typingIntervalRef>>

\* handleEndChat: if (typingIntervalRef.current) { clearInterval; ref = null }
endChatStopTimer ==
  /\ timers' =
       IF typingIntervalRef # 0
         THEN clearInterval(timers, typingIntervalRef)
         ELSE timers
  /\ typingIntervalRef' = 0

\* handleEndChat: the fire-and-forget notification inside try/catch.  The
\* promise fetch returns is dropped: no response is read and a rejection
\* reaches no catch block, so of a notification that was sent only the fact
\* is kept.  The catch sees only an exception thrown while the request is
\* built and issued; it sets the error text when the exception is an Error.
endChatNotify(outcome) ==
  CASE outcome = "sent" ->
         /\ endNotes' = endNotes + 1
         /\ UNCHANGED error
    [] outcome = "threwError" ->
         /\ \E e \in NetworkErrors : error' = Some(e)
         /\ UNCHANGED endNotes
    [] outcome = "threwOther" ->
         UNCHANGED <<endNotes, error>>

\* mutant: the ended flag is toggled instead of set
endChatFlags_Toggle ==
  /\ isChatEnded' = ~isChatEnded
  /\ isTyping' = FALSE
  /\ typingText' = <<>>
  /\ input' = <<>>
  /\ isLoading' = FALSE

\* handleEndChat: the unconditional flag updates
endChatFlags ==
  /\ isChatEnded' = TRUE
  /\ isTyping' = FALSE
  /\ typingText' = <<>>
  /\ input' = <<>>
  /\ isLoading' = FALSE

\* mutant: the flag updates sit inside the try, after the notification
HandleEndChat_FlagsInTry(outcome) ==
  /\ phase = "mounted"
  /\ EndControlRendered
  /\ endNotes < MaxEndCalls
  /\ endChatStopTimer
  /\ endChatNotify(outcome)
  /\ IF outcome = "sent"
       THEN endChatFlags
       ELSE UNCHANGED <<isChatEnded, isTyping, typingText, input, isLoading>>
  /\ cancelled' = cancelled \cup Stopped(timers, timers')
  /\ lastCall' = "handleEndChat"
  /\ UNCHANGED <<phase, navigations, personaId, persona, messages,
                 isLoadingPersona, personaReqs, chatReqs>>

HandleEndChat(outcome) ==
  /\ phase = "mounted"
  /\ EndControlRendered
  /\ endNotes < MaxEndCalls
  /\ endChatStopTimer
  /\ endChatNotify(outcome)
  /\ endChatFlags
  /\ cancelled' = cancelled \cup Stopped(timers, timers')
  /\ lastCall' = "handleEndChat"
  /\ UNCHANGED <<phase, navigations, personaId, persona, messages,
                 isLoadingPersona, personaReqs, chatReqs>>

\* the cleanup of the mount effect
Unmount ==
  /\ phase = "mounted"
  /\ phase' = "unmounted"
  /\ timers' =
       IF typingIntervalRef # 0
         THEN clearInterval(timers, typingIntervalRef)
         ELSE timers
  /\ cancelled' = cancelled \cup Stopped(timers, timers')
  /\ lastCall' = "unmount"
  /\ UNCHANGED <<navigations, personaId, persona, messages, input,
                 isLoading, typingText, isTyping, error, isLoadingPersona,
                 isChatEnded, typingIntervalRef, personaReqs, chatReqs,
                 endNotes>>

----------------------------------------------------------------------------
Next ==
  \/ Mount
  \/ \E id \in PersonaIds \cup {""} : Navigate(id)
  \/ \E r \in BagToSet(personaReqs), o \in PersonaOutcomes :
       PersonaResponse(r, o)
  \/ \E v \in UserInputs : SetInput(v)
  \/ HandleSubmit
  \/ \E i \in 1..Len(chatReqs), o \in ChatOutcomes : ChatResponse(i, o)
  \/ \E t \in timers, lag \in {0, 1} : Tick(t, lag)
  \/ \E o \in EndNotifyOutcomes : HandleEndChat(o)
  \/ Unmount

Spec == Init /\ [][Next]_vars

\* The undisturbed conversation: one persona load that succeeds, then
\* submits whose requests are answered with a non-empty reply and whose
\* reveals run to their commit; no end, no failure, no change of identifier,
\* no teardown.
ScenarioNext ==
  \/ Mount
  \/ \E r \in BagToSet(personaReqs), o \in PersonaOutcomes :
       o.kind = "ok" /\ PersonaResponse(r, o)
  \/ \E v \in UserInputs : SetInput(v)
  \/ HandleSubmitWithin(MaxScenarioMsgs)
  \/ \E i \in 1..Len(chatReqs), o \in ChatOutcomes :
       /\ o.kind = "ok"
       /\ OrElse(o.response, o.message) # <<>>
       /\ ChatResponse(i, o)
  \/ \E t \in timers, lag \in {0, 1} : Tick(t, lag)

ScenarioSpec == Init /\ [][ScenarioNext]_vars

\* Scheduling: a chat request that is outstanding is eventually answered or
\* fails (fetch settles its promise), and an interval fires every 12 ms
\* until clearInterval removes it.
FairSpec ==
  /\ Spec
  /\ WF_vars(\E i \in 1..Len(chatReqs), o \in ChatOutcomes : ChatResponse(i, o))
  /\ WF_vars(\E t \in timers, lag \in {0, 1} : Tick(t, lag))

----------------------------------------------------------------------------
(* Properties.                                                             *)

IsPrefix(s, t) == Len(s) <= Len(t) /\ SubSeq(t, 1, Len(s)) = s

\* the replies a reveal has committed to the transcript
ReplyCount(msgs) ==
  Cardinality({i \in 1..Len(msgs) :
                 msgs[i].role = "assistant" /\ msgs[i].id = "ts"})

\* ended, no reveal running and no chat request outstanding
EndedQuiet ==
  isChatEnded /\ timers = {} /\ chatReqs = <<>> /\ typingText = <<>>

\* C1: handleEndChat called while the reveal timer is active discards the
\* partial text: typingText becomes empty, the timer is gone, nothing is
\* appended in that step, no chat request is left that could start another
\* reveal, and from then on no reply is ever committed to messages and
\* typingText stays empty.
C1_EndDiscardsReveal ==
  [][/\ (lastCall' = "handleEndChat" /\ timers # {}) =>
          (messages' = messages /\ EndedQuiet')
     /\ EndedQuiet =>
          (EndedQuiet' /\ ReplyCount(messages') <= ReplyCount(messages))]_vars

\* C1 witness: handleEndChat has just run and it stopped a reveal part-way
C1_Witness ==
  /\ lastCall = "handleEndChat"
  /\ cancelled # {}
  /\ endNotes = 1
  /\ phase = "mounted"

\* C2 as claimed: once handleEndChat has run the view stays ended with no
\* reveal timer active and isTyping and isLoading false.
C2_EndedIsTerminal ==
  isChatEnded => (timers = {} /\ ~isTyping /\ ~isLoading)

\* C3 as claimed: in every step the previous messages list is a prefix of
\* the next one.
C3_AppendOnly == [][IsPrefix(messages, messages')]_vars

\* C3 amended: every step other than the completion of a persona load keeps
\* the previous list as a prefix of the next; the completion of a persona
\* load replaces the list by the empty list or by one greeting message.
C3_AppendOnlyExceptLoad ==
  [][IF lastCall' \in {"personaLoaded", "personaFailed"}
       THEN \/ messages' = <<>>
            \/ /\ Len(messages') = 1
               /\ messages'[1].id = "greeting"
               /\ messages'[1].role = "assistant"
       ELSE IsPrefix(messages, messages')]_vars

\* C3 witness: a transcript of two entries built by a submit and a commit
C3_Witness ==
  /\ lastCall = "tickCommit"
  /\ Len(messages) >= 2
  /\ messages[Len(messages) - 1].role = "user"

\* C4: handleSubmit called while a reply is pending or after the end leaves
\* messages, input, isLoading and error unchanged and issues no chat request.
C4_SubmitNoOpWhenPendingOrEnded ==
  [][(lastCall' = "handleSubmit" /\ (isLoading \/ isChatEnded)) =>
       UNCHANGED <<messages, input, isLoading, error, chatReqs>>]_vars

\* C4 witness: handleSubmit has just been called with sendable text while a
\* reply was pending (an accepted submit would have emptied the input)
C4_Witness ==
  /\ lastCall = "handleSubmit"
  /\ Trim(input) # <<>>
  /\ personaId # ""
  /\ isLoading
  /\ ~isChatEnded

\* C5: handleSubmit with an empty or whitespace-only input appends no
\* message and issues no chat request, in any state.
C5_BlankSubmitNoOp ==
  [][(lastCall' = "handleSubmit" /\ Trim(input) = <<>>) =>
       UNCHANGED <<messages, chatReqs>>]_vars

\* C5 witness: handleSubmit has just been called on a whitespace-only input
\* in a state where nothing else would have rejected it
C5_Witness ==
  /\ lastCall = "handleSubmit"
  /\ input = <<" ">>
  /\ personaId # ""
  /\ ~isLoading
  /\ ~isChatEnded

\* C6: the conversationHistory of the request an accepted submit issues is
\* the transcript before the submit reduced to {role, content}, in order,
\* followed by the just-typed user message.
C6_HistoryEndsWithUserMessage ==
  [][(lastCall' = "handleSubmit" /\ Len(chatReqs') > Len(chatReqs)) =>
       LET sent == chatReqs'[Len(chatReqs')] IN
       /\ sent.conversationHistory =
            Project(messages) \o <<[role |-> "user", content |-> input]>>
       /\ sent.message = input]_vars

\* C6 witness: a request in flight whose history has the greeting before the
\* user's message
C6_Witness ==
  /\ lastCall = "handleSubmit"
  /\ chatReqs # <<>>
  /\ Len(chatReqs[1].conversationHistory) = 2
  /\ chatReqs[1].conversationHistory[1].role = "assistant"

\* C7: the tick that completes a reveal of a non-empty text appends exactly
\* one assistant message with the full text, empties typingText, clears
\* isTyping and isLoading and stops the timer.
C7_RevealCommits ==
  [][lastCall' = "tickCommit" =>
       \E t \in timers :
         /\ t.text # <<>>
         /\ t.index = Len(t.text)
         /\ messages' = Append(messages, Message("ts", "assistant", t.text))
         /\ typingText' = <<>>
         /\ ~isTyping'
         /\ ~isLoading'
         /\ timers' = {}
         /\ typingIntervalRef' = 0]_vars

\* C7 witness: a reveal has just completed
C7_Witness ==
  /\ lastCall = "tickCommit"
  /\ messages # <<>>
  /\ messages[Len(messages)].content = <<"h", "i">>

\* C8: at most one reveal timer is active, and it is the one the handle
\* typingIntervalRef names.
C8_OneTimer ==
  /\ Cardinality(timers) <= 1
  /\ \A t \in timers : t.id = typingIntervalRef

\* C8 witness: typeMessage has just installed the timer of a reveal
C8_Witness ==
  /\ lastCall = "chatReply"
  /\ Cardinality(timers) = 1
  /\ typingIntervalRef \in TimerIds

\* C9 as claimed: after any failed persona load error holds the failure
\* text, messages is empty and persona is unset.
C9_FailedLoadIsFatal ==
  [][lastCall' = "personaFailed" =>
       (ErrorShown' /\ messages' = <<>> /\ persona' = Null)]_vars

\* C10 as claimed: after a successful persona load messages is one assistant
\* message with the greeting when the response carries one, and empty when
\* it carries none.
C10_GreetingSeeded ==
  [][lastCall' = "personaLoaded" =>
       LET g == persona'[1].greeting IN
       IF g # Null
         THEN messages' = <<Message("greeting", "assistant", g[1])>>
         ELSE messages' = <<>>]_vars

\* C10 amended: after a successful persona load messages is one assistant
\* message with the greeting when the response carries a non-empty
\* greeting, and empty when it carries none or an empty one.
C10_NonEmptyGreetingSeeded ==
  [][lastCall' = "personaLoaded" =>
       LET g == persona'[1].greeting IN
       IF g # Null /\ g[1] # <<>>
         THEN messages' = <<Message("greeting", "assistant", g[1])>>
         ELSE messages' = <<>>]_vars

\* C10 witness: a load has just seeded the transcript with its greeting
C10_Witness ==
  /\ lastCall = "personaLoaded"
  /\ persona # Null
  /\ persona[1].greeting = Some(<<"H">>)
  /\ Len(messages) = 1

\* C11 as claimed: a failed chat send sets the error text, clears isLoading
\* and appends exactly one apology message right after the user's message,
\* and the conversation stays usable: the guard of handleSubmit would accept
\* a following non-empty submit.
C11_FailedSendRecovers ==
  [][lastCall' = "chatFailed" =>
       /\ ErrorShown'
       /\ ~isLoading'
       /\ messages # <<>>
       /\ messages[Len(messages)].role = "user"
       /\ messages' = Append(messages, Message("err", "assistant", ApologyText))
       /\ ~isChatEnded'
       /\ personaId' # ""]_vars

\* C12: handleEndChat sets isChatEnded and clears isTyping, isLoading,
\* typingText and input whatever the end notification does (sent and never
\* answered, or failing in the try block), and nothing reverts isChatEnded
\* afterwards.
C12_EndIgnoresNotification ==
  [][/\ lastCall' = "handleEndChat" =>
          /\ isChatEnded'
          /\ ~isTyping'
          /\ ~isLoading'
          /\ typingText' = <<>>
          /\ input' = <<>>
     /\ isChatEnded => isChatEnded']_vars

\* the notification threw, its Error is shown, and the conversation is ended
C12_Witness ==
  /\ lastCall = "handleEndChat"
  /\ endNotes = 0
  /\ error = Some("Failed to fetch")
  /\ isChatEnded

\* C13: ending is idempotent on the flags: a second handleEndChat right after
\* a first one leaves isChatEnded, isTyping, isLoading, typingText and input
\* as the first one left them, and from any state whatever a handleEndChat
\* produces is the one fixed combination of flag values.
C13_EndIdempotent ==
  [][lastCall' = "handleEndChat" =>
       /\ <<isChatEnded', isTyping', isLoading', typingText', input'>>
            = <<TRUE, FALSE, FALSE, <<>>, <<>> >>
       /\ lastCall = "handleEndChat" =>
            UNCHANGED <<isChatEnded, isTyping, isLoading, typingText, input>>]_vars

\* handleEndChat has run twice in a row
C13_Witness ==
  /\ lastCall = "handleEndChat"
  /\ endNotes = 2
  /\ isChatEnded

\* C14 as claimed: isLoadingPersona is never false while a persona request is
\* outstanding, and is false once every load that was started has completed.
C14_LoadingFlagTracksLoads ==
  /\ personaReqs # EmptyBag => isLoadingPersona
  /\ (phase # "constructed" /\ personaReqs = EmptyBag) => ~isLoadingPersona

\* C15 as claimed: once the view is unmounted no reveal timer is active, in
\* any later state, also when a chat response outstanding at teardown arrives.
C15_NoTimerAfterUnmount == phase = "unmounted" => timers = {}

\* C16: typeMessage with an empty reply text clears isTyping, typingText and
\* isLoading at once, appends no message and starts no timer.
C16_EmptyReplyClears ==
  [][lastCall' = "chatReplyEmpty" =>
       /\ ~isTyping'
       /\ typingText' = <<>>
       /\ ~isLoading'
       /\ messages' = messages
       /\ timers' = timers
       /\ typingIntervalRef' = typingIntervalRef]_vars

\* an empty reply has just been handled: the user's message is still the last
\* one and nothing is pending or being revealed
C16_Witness ==
  /\ lastCall = "chatReplyEmpty"
  /\ messages # <<>>
  /\ messages[Len(messages)].role = "user"
  /\ ~isLoading
  /\ timers = {}

\* C17: when the effect runs with no persona identifier it sets the error to
\* 'No persona ID provided' and clears isLoadingPersona, and issues no
\* persona request.
C17_NoPersonaId ==
  [][(lastCall' \in {"mount", "navigate"} /\ personaId' = "") =>
       /\ error' = Some("No persona ID provided")
       /\ ~isLoadingPersona'
       /\ personaReqs' = personaReqs]_vars

\* the view has just mounted without an identifier
C17_Witness ==
  /\ lastCall = "mount"
  /\ personaId = ""
  /\ error = Some("No persona ID provided")
  /\ personaReqs = EmptyBag

\* C18: at most one ordinary chat request is outstanding at any time: between
\* an accepted submit and the arrival of its response no second submit is
\* accepted.
C18_OneChatRequest == Len(chatReqs) <= 1

\* a non-blank submit has just been attempted while the request of an
\* earlier submit is still outstanding, and was not accepted
C18_Witness ==
  /\ lastCall = "handleSubmit"
  /\ Len(chatReqs) = 1
  /\ isLoading
  /\ Trim(input) # <<>>

\* C19 as claimed: during a reveal of reply text t, typingText is after every
\* tick the prefix of t whose length is the number of ticks so far: each tick
\* adds exactly the next character, none skipped and none repeated, whenever
\* the queued updater is evaluated.
C19_RevealIsPrefix ==
  \A t \in timers : typingText = SubSeq(t.text, 1, t.index)

\* C20 as claimed: handleEndChat can be invoked only while the conversation
\* is not ended, so at most one end notification is sent per view.
C20_EndOnlyOnce ==
  [][/\ lastCall' = "handleEndChat" => ~isChatEnded
     /\ endNotes' <= 1]_vars

\* the seed of the transcript a loaded persona p gives: its greeting, if any
GreetingOf(p) ==
  IF p # Null /\ Truthy(p[1].greeting)
    THEN <<Message("greeting", "assistant", p[1].greeting[1])>>
    ELSE <<>>

\* msgs is the greeting of p followed by user and assistant messages in
\* turn, starting with a user message; the last user message is unanswered
\* exactly when a reply is awaited or being revealed
InOrder(msgs, p, awaiting) ==
  LET g == GreetingOf(p)
      rest == SubSeq(msgs, Len(g) + 1, Len(msgs)) IN
  /\ IsPrefix(g, msgs)
  /\ \A i \in 1..Len(rest) :
       /\ rest[i].id = "ts"
       /\ rest[i].role = IF i % 2 = 1 THEN "user" ELSE "assistant"
       /\ rest[i].content # <<>>
  /\ Len(rest) % 2 = IF awaiting THEN 1 ELSE 0

\* C21: in the undisturbed conversation (a successful load with greeting g,
\* then accepted submits u1..uk each answered by a non-empty reply r1..rk
\* whose reveal completes) the transcript is [assistant g, user u1,
\* assistant r1, ..., user uk, assistant rk] in that order: the load seeds
\* g, an accepted submit appends the input as a user message, the commit of
\* a reveal appends the revealed reply text as an assistant message, and
\* nothing else touches the transcript.
C21_TranscriptInOrder ==
  [][/\ lastCall' = "personaLoaded" => messages' = GreetingOf(persona')
     /\ (lastCall' = "handleSubmit" /\ chatReqs' # chatReqs) =>
          /\ messages' = Append(messages, Message("ts", "user", input))
          /\ chatReqs'[1].message = input
     /\ lastCall' = "chatReply" =>
          /\ messages' = messages
          /\ \E t \in timers' : t.text # <<>> /\ t.index = 0
     /\ lastCall' = "tickCommit" =>
          \E t \in timers :
            messages' = Append(messages, Message("ts", "assistant", t.text))
     /\ messages' # messages =>
          \/ lastCall' \in {"personaLoaded", "tickCommit"}
          \/ lastCall' = "handleSubmit" /\ chatReqs' # chatReqs
     /\ persona' # Null =>
          InOrder(messages', persona', chatReqs' # <<>> \/ timers' # {})]_vars

\* greeting, then two submits, each followed by its revealed reply
C21_Witness ==
  /\ persona # Null
  /\ Len(messages) = 5
  /\ messages[1] = Message("greeting", "assistant", <<"H">>)
  /\ messages[2] = Message("ts", "user", <<" ", "q">>)
  /\ messages[3] = Message("ts", "assistant", <<"h", "i">>)
  /\ messages[4].role = "user"
  /\ messages[5].role = "assistant"
  /\ chatReqs = <<>>
  /\ timers = {}
  /\ lastCall = "tickCommit"

\* C22 as claimed: once the conversation has ended the messages list never
\* changes again, also when a chat request or a persona request that was
\* outstanding at the end completes afterwards.
C22_FrozenAfterEnd == [][isChatEnded => messages' = messages]_vars

\* C23 as claimed: under fairness of chat responses and of the ticks of a
\* mounted view, after every accepted submit isLoading eventually becomes
\* false again.
C23_PendingEventuallyCleared == isLoading ~> ~isLoading

\* C23, amended: under the same fairness, after every accepted submit either
\* isLoading eventually becomes false again (non-empty reply, empty reply or
\* failure) or the view is torn down first.
C23_PendingClearedWhileMounted ==
  isLoading ~> (~isLoading \/ phase = "unmounted")

\* the pending flag has been cleared by the commit of a reveal, on a view
\* that is still mounted
C23_Witness ==
  /\ lastCall = "tickCommit"
  /\ phase = "mounted"
  /\ ~isLoading
  /\ ~isChatEnded
  /\ messages # <<>>
  /\ messages[Len(messages)].role = "assistant"

\* C24 as claimed: a reply or an apology is appended only to a transcript
\* that still holds the user message whose request produced it; as at most
\* one request is outstanding, that message is the last one of the
\* transcript.  After a change of the persona identifier has re-initialised
\* the conversation, the stale reply or apology is not appended.
C24_ReplyFollowsItsMessage ==
  [][lastCall' \in {"chatFailed", "tickCommit"} =>
       /\ messages # <<>>
       /\ messages[Len(messages)].role = "user"
       /\ messages[Len(messages)].id = "ts"]_vars

====
